---- MODULE Spec2Model ----
(***************************************************************************)
(* Sortition panel selection: the LEGACY sampler (legacy.py), its driver   *)
(* legacy_find (analysis.py), and the XMIN extender with the LEXIMIN       *)
(* engine (xmin.py).                                                       *)
(***************************************************************************)
EXTENDS Integers, Sequences, FiniteSets, TLC

VARIABLES
    feature_info,     \* Instance.categories: quota table, fv -> [min, max, selected, remaining]
    agents,           \* Instance.agents: agent id -> (category -> feature)
    k,                \* Instance.k
    cat_copy,         \* legacy_find: deep copy of the quota table mutated by the attempt
    agents_copy,      \* legacy_find: ids of the deep-copied agent map still alive
    people_selected,  \* find_random_sample_legacy: ids selected so far, in insertion order
    count,            \* find_random_sample_legacy: loop counter
    lpc,              \* position of legacy_find
    last_step,        \* observation of the last selection step (live pool before, agents added)
    columns_data,           \* find_distribution_xmin: agent id -> values of the address columns
    check_same_address,     \* find_distribution_xmin: whether households are constrained
    xpc,                    \* position of find_distribution_xmin
    caller,                 \* which function runs the engine
    weights,                \* _generate_initial_committees: weight of each agent
    rounds,                 \* _generate_initial_committees: rounds done
    committees,             \* the set of panels collected so far
    covered_agents,         \* the agents contained in some collected panel
    fixed_probabilities,    \* _expand_distribution_leximin: agent -> fixed probability
    reduction_counter,      \* _expand_distribution_leximin: numeric relaxations so far
    dual_model,             \* _expand_distribution_leximin: the dual LP the next solve optimizes
    primal_x,               \* the values comm_var.x read from the solved primal
    initial_portfolio,      \* find_distribution_xmin: the list of panels
    probabilities,          \* find_distribution_xmin: the list of weights
    i,                      \* find_distribution_xmin: iterations of the extension loop done
    leximin_portfolio,      \* the list of panels find_distribution_leximin returned
    leximin_probabilities,  \* the list of weights find_distribution_leximin returned
    raised,                 \* the exception that ended the run, with its payload
    pair_histogram          \* PairHistogram.pair_histogram: key (i, j) -> accumulated value

legacy_vars == <<feature_info, agents, k, cat_copy, agents_copy, people_selected, count, lpc, last_step>>

instance_vars == <<columns_data, check_same_address>>
builder_vars == <<weights, rounds>>
engine_vars == <<committees, covered_agents, fixed_probabilities, reduction_counter, dual_model>>
result_vars == <<primal_x, initial_portfolio, probabilities, i>>
leximin_vars == <<leximin_portfolio, leximin_probabilities>>
xmin_vars == <<instance_vars, xpc, caller, builder_vars, engine_vars, result_vars, leximin_vars, raised>>

histogram_vars == <<pair_histogram>>

vars == <<legacy_vars, xmin_vars, histogram_vars>>

(***************************************************************************)
(* Bounds of the model.                                                    *)
(***************************************************************************)
MaxAgents == 3
MaxQuota == 2
MaxFreeSlack == 1
MaxRounds == 2
MaxReductions == 1
SolverNoise == 1
MaxAddresses == 2

(***************************************************************************)
(* Shape of the quota table: categories and features in the iteration      *)
(* order of the dicts built by read_instance.                              *)
(***************************************************************************)
CategoryOrder == <<"gender", "age">>
FeatureOrder == [gender |-> <<"f", "m">>, age |-> <<"old", "young">>]
FVOrder == <<<<"gender", "f">>, <<"gender", "m">>, <<"age", "old">>, <<"age", "young">>>>

SeqToSet(s) == {s[ix] : ix \in 1..Len(s)}
Cats == SeqToSet(CategoryOrder)
FV == SeqToSet(FVOrder)

Min2(a, b) == IF a <= b THEN a ELSE b
Max2(a, b) == IF a >= b THEN a ELSE b

\* ids of a dict keyed by agent id, in insertion order (read_instance inserts 0, 1, 2, ...)
RECURSIVE SortedSeq(_)
SortedSeq(S) ==
    IF S = {} THEN <<>>
    ELSE LET m == CHOOSE x \in S : \A y \in S : x <= y
         IN <<m>> \o SortedSeq(S \ {m})

\* the feature values of one person, as (category, feature) pairs in the order of person.items()
PersonItems(person) == [j \in 1..Len(CategoryOrder) |-> <<CategoryOrder[j], person[CategoryOrder[j]]>>]

(***************************************************************************)
(* read_instance: selected = 0 and remaining = number of pool members      *)
(* holding the feature value.                                              *)
(***************************************************************************)
PoolCount(ags, fv) == Cardinality({a \in DOMAIN ags : ags[a][fv[1]] = fv[2]})

read_instance(quotas, ags) ==
    [fv \in FV |-> [min |-> quotas[fv][1], max |-> quotas[fv][2],
                    selected |-> 0, remaining |-> PoolCount(ags, fv)]]

(***************************************************************************)
(* legacy.py                                                               *)
(***************************************************************************)
Failed == [error |-> TRUE]

\* loop body of really_delete_person over the items of people[pkey], from item j on
RECURSIVE ReallyDeleteScan(_, _, _, _)
ReallyDeleteScan(categories, items, j, selected) ==
    IF j > Len(items) THEN [error |-> FALSE, categories |-> categories]
    ELSE LET fv == items[j]
             it == categories[fv]
             nit == [it EXCEPT !.selected = IF selected THEN @ + 1 ELSE @,
                               !.remaining = @ - 1]
         IN IF nit.remaining = 0 /\ nit.selected < nit.min
            THEN Failed
            ELSE ReallyDeleteScan([categories EXCEPT ![fv] = nit], items, j + 1, selected)

\* a deletion that leaves the counters of the quota table as they are
really_delete_without_counting(categories, ags, people, pkey, selected) ==
    [error |-> FALSE, categories |-> categories, people |-> people \ {pkey}]
really_delete_person(categories, ags, people, pkey, selected) ==
    LET r == ReallyDeleteScan(categories, PersonItems(ags[pkey]), 1, selected)
    IN IF r.error THEN Failed
       ELSE [error |-> FALSE, categories |-> r.categories, people |-> people \ {pkey}]

\* inner loop of delete_all_in_cat over the items of one person to delete
RECURSIVE DeleteAllItemScan(_, _, _)
DeleteAllItemScan(categories, items, j) ==
    IF j > Len(items) THEN [error |-> FALSE, categories |-> categories]
    ELSE LET fv == items[j]
             nit == [categories[fv] EXCEPT !.remaining = @ - 1]
         IN IF nit.remaining = 0 /\ nit.selected < nit.min
            THEN Failed
            ELSE DeleteAllItemScan([categories EXCEPT ![fv] = nit], items, j + 1)

\* outer loop of delete_all_in_cat over people.items(), from position i on
RECURSIVE DeleteAllScan(_, _, _, _, _, _)
DeleteAllScan(categories, ags, order, ix, fv, to_delete) ==
    IF ix > Len(order) THEN [error |-> FALSE, categories |-> categories, to_delete |-> to_delete]
    ELSE IF ags[order[ix]][fv[1]] = fv[2]
         THEN LET r == DeleteAllItemScan(categories, PersonItems(ags[order[ix]]), 1)
              IN IF r.error THEN Failed
                 ELSE DeleteAllScan(r.categories, ags, order, ix + 1, fv, to_delete \cup {order[ix]})
         ELSE DeleteAllScan(categories, ags, order, ix + 1, fv, to_delete)

\* a full category whose people stay in the pool
keep_all_in_cat(categories, ags, people, fv) ==
    [error |-> FALSE, categories |-> categories, people |-> people]
delete_all_in_cat(categories, ags, people, fv) ==
    LET r == DeleteAllScan(categories, ags, SortedSeq(people), 1, fv, {})
    IN IF r.error THEN Failed
       ELSE [error |-> FALSE, categories |-> r.categories, people |-> people \ r.to_delete]

\* people still in the pool whose two address columns equal those of pkey
get_people_at_same_address(people, pkey, columns) ==
    {q \in people : columns[q] = columns[pkey]}

\* the loop of delete_person that removes the people at the same address
RECURSIVE SameAddressScan(_, _, _, _, _)
SameAddressScan(categories, ags, people, order, ix) ==
    IF ix > Len(order) THEN [error |-> FALSE, categories |-> categories, people |-> people]
    ELSE LET r == really_delete_person(categories, ags, people, order[ix], FALSE)
         IN IF r.error THEN Failed
            ELSE SameAddressScan(r.categories, ags, r.people, order, ix + 1)

\* the last loop of delete_person: every category value of the selected person that is full
RECURSIVE FullCatScan(_, _, _, _, _)
FullCatScan(categories, ags, people, items, j) ==
    IF j > Len(items) THEN [error |-> FALSE, categories |-> categories, people |-> people]
    ELSE IF categories[items[j]].selected = categories[items[j]].max
         THEN LET r == delete_all_in_cat(categories, ags, people, items[j])
              IN IF r.error THEN Failed
                 ELSE FullCatScan(r.categories, ags, r.people, items, j + 1)
         ELSE FullCatScan(categories, ags, people, items, j + 1)

delete_person(categories, ags, people, pkey, columns, same_address) ==
    LET r1 == really_delete_person(categories, ags, people, pkey, TRUE)
    IN IF r1.error THEN Failed
       ELSE LET r2 == IF same_address
                      THEN SameAddressScan(r1.categories, ags, r1.people,
                               SortedSeq(get_people_at_same_address(r1.people, pkey, columns)), 1)
                      ELSE r1
            IN IF r2.error THEN Failed
               ELSE FullCatScan(r2.categories, ags, r2.people, PersonItems(ags[pkey]), 1)

\* the ratio -100.0 with no category chosen
NoRatio == [error |-> FALSE, num |-> -100, den |-> 1, key |-> <<"", "">>]

\* loop of find_max_ratio_cat over the feature values, from position i on;
\* the ratio (min - selected) / remaining is kept as num / den with den > 0
RECURSIVE MaxRatioScan(_, _, _)
MaxRatioScan(categories, ix, best) ==
    IF ix > Len(FVOrder) THEN best
    ELSE LET it == categories[FVOrder[ix]]
         IN IF it.selected < it.min /\ it.remaining < it.min - it.selected
            THEN Failed
            ELSE IF it.remaining # 0 /\ it.max # 0
                 THEN IF it.min - it.selected > it.remaining
                      THEN Failed
                      ELSE IF (it.min - it.selected) * best.den > best.num * it.remaining
                           THEN MaxRatioScan(categories, ix + 1,
                                    [error |-> FALSE, num |-> it.min - it.selected,
                                     den |-> it.remaining, key |-> FVOrder[ix]])
                           ELSE MaxRatioScan(categories, ix + 1, best)
                 ELSE MaxRatioScan(categories, ix + 1, best)

\* a choice of the first feature value that has people left, whatever its ratio
find_first_open_cat(categories) ==
    LET open == {ix \in 1..Len(FVOrder) : /\ categories[FVOrder[ix]].remaining # 0
                                          /\ categories[FVOrder[ix]].max # 0}
    IN IF open = {}
       THEN {[error |-> FALSE, ratio_cat |-> "", ratio_cat_val |-> "", ratio_random |-> -1]}
       ELSE LET key == FVOrder[CHOOSE ix \in open : \A jx \in open : ix <= jx]
            IN {[error |-> FALSE, ratio_cat |-> key[1], ratio_cat_val |-> key[2],
                 ratio_random |-> r] : r \in 1..categories[key].remaining}
\* the results find_max_ratio_cat can return: one per value of random.randint(1, remaining)
find_max_ratio_cat(categories) ==
    LET best == MaxRatioScan(categories, 1, NoRatio)
    IN IF best.error THEN {Failed}
       ELSE IF best.key = <<"", "">>
            THEN {[error |-> FALSE, ratio_cat |-> "", ratio_cat_val |-> "", ratio_random |-> -1]}
            ELSE {[error |-> FALSE, ratio_cat |-> best.key[1], ratio_cat_val |-> best.key[2],
                   ratio_random |-> r] : r \in 1..categories[best.key].remaining}

\* the search loop of find_random_sample_legacy: the ratio_random-th person in the order of
\* people.items() that holds the chosen value, or -1 when the loop ends without a break
RECURSIVE PickScan(_, _, _, _, _)
PickScan(ags, order, ix, ratio, left) ==
    IF ix > Len(order) THEN -1
    ELSE IF ags[order[ix]][ratio.ratio_cat] = ratio.ratio_cat_val
         THEN IF left - 1 = 0 THEN order[ix]
              ELSE PickScan(ags, order, ix + 1, ratio, left - 1)
         ELSE PickScan(ags, order, ix + 1, ratio, left)

check_min_cats(categories) == \A fv \in FV : ~(categories[fv].selected < categories[fv].min)

\* one iteration of the for loop of find_random_sample_legacy: every outcome it can have
LegacyIteration(categories, ags, people, selected, cnt, wanted, columns, same_address) ==
    { IF ratio.error THEN [status |-> "SelectionError"]
      ELSE IF people # {} /\ ratio.ratio_cat \notin Cats
           THEN [status |-> "KeyError"]
           ELSE LET pkey == PickScan(ags, SortedSeq(people), 1, ratio, ratio.ratio_random)
                    d == IF pkey = -1
                         THEN [error |-> FALSE, categories |-> categories, people |-> people]
                         ELSE delete_person(categories, ags, people, pkey, columns,
                                            same_address)
                IN IF d.error THEN [status |-> "SelectionError"]
                   ELSE IF cnt < wanted - 1 /\ d.people = {}
                        THEN [status |-> "SelectionError"]
                        ELSE [status |-> "ok", categories |-> d.categories, people |-> d.people,
                              selected |-> IF pkey = -1 THEN selected ELSE Append(selected, pkey),
                              added |-> IF pkey = -1 THEN {} ELSE {pkey}]
      : ratio \in find_max_ratio_cat(categories) }

(***************************************************************************)
(* xmin.py: numbers.  Probabilities are kept as integers in units of       *)
(* 1/Scale, dual variables in units of 1/DualGrid, panel weights of the    *)
(* reconstruction in units of 1/PrimalGrid.                                *)
(***************************************************************************)
Scale == 10000 * 144
DualGrid == 3 * 4
PrimalGrid == 3 * 4
\* EPS = 0.0005, in units of 1/Scale
EPS == (5 * Scale) \div 10000
\* the constant 0.0001 of the numeric relaxation, in units of 1/Scale
ReductionStep == Scale \div 10000
\* one grid step of a dual variable and of a panel weight, in units of 1/Scale
DualUnit == Scale \div DualGrid
PrimalUnit == Scale \div PrimalGrid

RECURSIVE SumOver(_, _)
SumOver(S, f) ==
    IF S = {} THEN 0
    ELSE LET x == CHOOSE x \in S : TRUE IN f[x] + SumOver(S \ {x}, f)

RECURSIVE SumSeq(_)
SumSeq(s) == IF s = <<>> THEN 0 ELSE Head(s) + SumSeq(Tail(s))

SetMax(S) == CHOOSE x \in S : \A y \in S : y <= x
SetMin(S) == CHOOSE x \in S : \A y \in S : x <= y

RECURSIVE Pow2(_)
Pow2(n) == IF n = 0 THEN 1 ELSE 2 * Pow2(n - 1)

\* list(committees): the panels of a set in one fixed order
PanelCode(P) == SumOver(P, [a \in P |-> Pow2(a)])
RECURSIVE PanelsInOrder(_)
PanelsInOrder(C) ==
    IF C = {} THEN <<>>
    ELSE LET P == CHOOSE P \in C : \A R \in C : PanelCode(P) <= PanelCode(R)
         IN <<P>> \o PanelsInOrder(C \ {P})
\* a list that holds its first panel twice
SetToListRepeating(C) == IF C = {} THEN <<>> ELSE <<PanelsInOrder(C)[1]>> \o PanelsInOrder(C)
SetToList(C) == PanelsInOrder(C)

(***************************************************************************)
(* xmin.py: households and the committee-generation IP                     *)
(***************************************************************************)
\* _same_address on the columns named by check_same_address_columns
_same_address(columns_data1, columns_data2) == columns_data1 = columns_data2

\* for each agent, the rank of the earliest person with the same address
_compute_households(people, columns) ==
    LET Earliest(a) == SetMin({b \in DOMAIN people : _same_address(columns[b], columns[a])})
    IN [a \in DOMAIN people |->
           Cardinality({b \in DOMAIN people : b < Earliest(a) /\ Earliest(b) = b})]

Holders(people, S, fv) == Cardinality({a \in S : people[a][fv[1]] = fv[2]})

\* the household constraints: at most one member of each household with two or more members
HouseholdConstraint(households, S) ==
    \A a \in S : \A b \in S : a # b => households[a] # households[b]

\* the constraints of the model built by _setup_committee_generation
CommitteeConstraints(categories, people, number_people_wanted, same_address, households, S) ==
    /\ Cardinality(S) = number_people_wanted
    /\ \A fv \in FV : /\ Holders(people, S, fv) >= categories[fv].min
                      /\ Holders(people, S, fv) <= categories[fv].max
    /\ same_address => HouseholdConstraint(households, S)

\* the solutions of new_committee_model
FeasibleCommittees(categories, people, number_people_wanted, same_address, households) ==
    {S \in SUBSET DOMAIN people :
        CommitteeConstraints(categories, people, number_people_wanted, same_address,
                             households, S)}

\* a solve that stops at any feasible panel
AnyFeasibleCommittee(feasible, w) == {[new_set |-> S, value |-> SumOver(S, w)] : S \in feasible}
\* new_committee_model.optimize() for an objective: the optimal panels with their value
OptimalCommittees(feasible, w) ==
    LET best == SetMax({SumOver(S, w) : S \in feasible})
    IN {[new_set |-> S, value |-> best] : S \in {T \in feasible : SumOver(T, w) = best}}

(***************************************************************************)
(* xmin.py: _relax_infeasible_quotas                                       *)
(***************************************************************************)
\* reduction_weight, times CostScale so that it stays an integer: 0 if min = 0, else 1 + 2/min
CostScale == 3 * 4 * 5
\* a weight that gives every lowering the salience of a raising
reduction_weight_without_bonus(categories, fv) ==
    IF categories[fv].min = 0 THEN 0 ELSE CostScale
reduction_weight(categories, fv) ==
    IF categories[fv].min = 0 THEN 0 ELSE CostScale + (2 * CostScale) \div categories[fv].min

\* the panels the relaxed model can select: size, households (added inside the loop over the
\* feature values, so only when there is a feature value), the inclusion set
RelaxedPanels(people, number_people_wanted, same_address, households, inclusion_set) ==
    {S \in SUBSET DOMAIN people :
        /\ inclusion_set \subseteq S
        /\ Cardinality(S) = number_people_wanted
        /\ (same_address /\ FV # {}) => HouseholdConstraint(households, S)}

\* the least slacks that make panel S satisfy the relaxed quotas
NeededMin(categories, people, S, fv) == Max2(0, categories[fv].min - Holders(people, S, fv))
NeededMax(categories, people, S, fv) == Max2(0, Holders(people, S, fv) - categories[fv].max)

\* the objective at the least slacks of S
RelaxCost(categories, people, S) ==
    SumOver(FV, [fv \in FV |-> reduction_weight(categories, fv) * NeededMin(categories, people, S, fv)
                               + CostScale * NeededMax(categories, people, S, fv)])

\* the optimal solutions (min_vars, max_vars) of the relaxation model for ensure_inclusion = ((),):
\* a slack with objective coefficient 0 is free, up to MaxFreeSlack
RelaxSolutions(categories, people, number_people_wanted, same_address, households) ==
    LET panels == RelaxedPanels(people, number_people_wanted, same_address, households, {})
        best == SetMin({RelaxCost(categories, people, S) : S \in panels})
        free == {fv \in FV : reduction_weight(categories, fv) = 0}
    IN UNION {{[min_vars |-> [fv \in FV |-> IF fv \in free THEN slack[fv]
                                            ELSE NeededMin(categories, people, S, fv)],
                max_vars |-> [fv \in FV |-> NeededMax(categories, people, S, fv)]] :
                 slack \in {m \in [free -> 0..MaxFreeSlack] :
                               \A fv \in free : m[fv] >= NeededMin(categories, people, S, fv)}}
              : S \in {T \in panels : RelaxCost(categories, people, T) = best}}

\* the loop that turns a solution into new_quotas and output_lines, from feature value i on
RECURSIVE RelaxReport(_, _, _, _, _)
RelaxReport(categories, sol, ix, new_quotas, output_lines) ==
    IF ix > Len(FVOrder)
    THEN [error |-> "", new_quotas |-> new_quotas, output_lines |-> output_lines]
    ELSE LET fv == FVOrder[ix]
             lower == categories[fv].min - sol.min_vars[fv]
             upper == categories[fv].max + sol.max_vars[fv]
             lines1 == IF lower < categories[fv].min
                       THEN Append(output_lines, [note |-> "lowering", fv |-> fv, to |-> lower])
                       ELSE output_lines
         IN IF upper > categories[fv].max /\ lower # categories[fv].min
            THEN [error |-> "AssertionError"]
            ELSE RelaxReport(categories, sol, ix + 1, new_quotas @@ (fv :> <<lower, upper>>),
                     IF upper > categories[fv].max
                     THEN Append(lines1, [note |-> "raising", fv |-> fv, to |-> upper])
                     ELSE lines1)

\* model.optimize(): the status a solve of a model with these solutions ends with
SolveStatus(solutions) == IF solutions = {} THEN "INFEASIBLE" ELSE "OPTIMAL"

\* a diagnoser that gives up on every instance
_relax_always_gives_up(categories, people, number_people_wanted, same_address, households) ==
    {[error |-> "SelectionError"]}

\* every outcome of _relax_infeasible_quotas: SelectionError when the status is not OPTIMAL,
\* else the report of one optimal solution
_relax_infeasible_quotas(categories, people, number_people_wanted, same_address, households) ==
    LET status == SolveStatus(RelaxedPanels(people, number_people_wanted, same_address,
                                            households, {}))
    IN IF status # "OPTIMAL"
       THEN {[error |-> "SelectionError"]}
       ELSE {RelaxReport(categories, sol, 1, <<>>, <<>>) :
                sol \in RelaxSolutions(categories, people, number_people_wanted,
                                       same_address, households)}

\* every outcome of _setup_committee_generation: the feasible panels of the model, or the error
_setup_committee_generation(categories, people, number_people_wanted, same_address, households) ==
    LET feasible == FeasibleCommittees(categories, people, number_people_wanted,
                                       same_address, households)
        status == SolveStatus(feasible)
    IN IF status = "INFEASIBLE"
       THEN {IF r.error # "" THEN [error |-> r.error]
             ELSE [error |-> "InfeasibleQuotasError", quotas |-> r.new_quotas,
                   output |-> r.output_lines]
             : r \in _relax_infeasible_quotas(categories, people, number_people_wanted,
                                              same_address, households)}
       ELSE IF status # "OPTIMAL"
            THEN {[error |-> "SelectionError"]}
            ELSE {[error |-> "", feasible |-> feasible]}

(***************************************************************************)
(* xmin.py: the dual LP of _dual_leximin_stage over a grid                 *)
(***************************************************************************)
\* the functions S -> 0..total whose values add up to total
RECURSIVE SimplexGrid(_, _)
SimplexGrid(S, total) ==
    IF S = {} THEN (IF total = 0 THEN {<<>>} ELSE {})
    ELSE LET a == CHOOSE a \in S : TRUE
         IN UNION {{(a :> v) @@ y : y \in SimplexGrid(S \ {a}, total - v)} : v \in 0..total}

\* the points that satisfy the normalisation: the y of the unfixed agents add up to 1
DualPoints(people, fixed) ==
    {u @@ f : u \in SimplexGrid(DOMAIN people \ DOMAIN fixed, DualGrid),
              f \in [DOMAIN fixed -> 0..DualGrid]}

\* the least cap_var that satisfies the constraint of every committee, in units of 1/DualGrid
DualCap(panels, y) == SetMax({0} \cup {SumOver(P, y) : P \in panels})

\* the objective, in units of 1/(Scale * DualGrid)
DualObjective(panels, fixed, y) ==
    DualCap(panels, y) * Scale
    - SumOver(DOMAIN fixed,
              [a \in DOMAIN fixed |-> fixed[a] * y[a]])

\* the LP that _dual_leximin_stage builds: a constraint for each committee, and the fixed
\* probabilities, which decide the normalisation constraint and the objective
_dual_leximin_stage(people, panels, fixed) == [panels |-> panels, fixed |-> fixed]

\* a dual LP that gets no constraint for the new panels
ConstrNotAdded(dual, new_panels) == dual
\* dual_model.addConstr(... <= dual_cap_var) for the new panels
AddConstr(dual, new_panels) == [dual EXCEPT !.panels = @ \cup new_panels]

\* no dual LP has been built
NoDual == [panels |-> {}, fixed |-> <<>>]

\* the head of the outer loop: a new dual LP if a probability is still to be fixed
OuterLoopDual(people, panels, fixed, dual) ==
    IF Cardinality(DOMAIN fixed) < Cardinality(DOMAIN people)
    THEN _dual_leximin_stage(people, panels, fixed)
    ELSE dual

\* a numeric relaxation that goes on with the dual LP it had
DualKeptAfterReduction(people, panels, reduced, dual) == dual
\* the dual LP after the loop `for agent in fixed_probabilities` of the numeric relaxation,
\* which builds a new LP after each reduced probability
DualAfterReduction(people, panels, reduced, dual) ==
    IF DOMAIN reduced = {} THEN dual ELSE _dual_leximin_stage(people, panels, reduced)

\* dual_model.optimize(): the optimal points, each with cap_var.x and objVal (units of 1/Scale)
DualSolutions(people, panels, fixed) ==
    LET solved == {[y |-> y, upper |-> DualCap(panels, y),
                    objective |-> DualObjective(panels, fixed, y)] :
                      y \in DualPoints(people, fixed)}
        best == SetMin({d.objective : d \in solved})
    IN {[y |-> d.y, upper |-> d.upper, objVal |-> best \div DualGrid] :
           d \in {e \in solved : e.objective = best}}

\* the numeric relaxation: every fixed probability p becomes max(0, p - 0.0001)
ReduceProbabilities(fixed) ==
    [a \in DOMAIN fixed |-> Max2(0, fixed[a] - ReductionStep)]

\* a threshold of one half on the dual weight
NewlyFixedAboveAHalf(people, fixed, y) ==
    {a \in DOMAIN people : 2 * y[a] * DualUnit > Scale /\ a \notin DOMAIN fixed}
\* the agents fixed when the column generation ends: dual weight > EPS and not yet fixed
NewlyFixed(people, fixed, y) ==
    {a \in DOMAIN people : y[a] * DualUnit > EPS /\ a \notin DOMAIN fixed}

\* an end of the outer iteration that fixes every agent not yet fixed
FixEveryUnfixedAgent(people, fixed, y, dual_obj) ==
    [a \in DOMAIN people \ DOMAIN fixed |-> Max2(0, dual_obj)] @@ fixed
\* fixed_probabilities[person] = max(0, dual_obj) for these agents
FixProbabilities(people, fixed, y, dual_obj) ==
    [a \in NewlyFixed(people, fixed, y) |-> Max2(0, dual_obj)] @@ fixed

\* a pass that keeps only the priced panel when it adds one
PricingOutcomeForgetting(people, panels, fixed, d, c) ==
    IF c.value * DualUnit <= d.upper * DualUnit + EPS
    THEN [kind |-> "fix", committees |-> panels,
          fixed_probabilities |-> FixProbabilities(people, fixed, d.y, d.objVal)]
    ELSE IF c.new_set \in panels
         THEN [kind |-> "AssertionError"]
         ELSE [kind |-> "add", committees |-> {c.new_set}, fixed_probabilities |-> fixed]
\* the rest of a pass of the inner `while True`, for the dual solution d and the priced panel c
PricingOutcome(people, panels, fixed, d, c) ==
    IF c.value * DualUnit <= d.upper * DualUnit + EPS
    THEN [kind |-> "fix", committees |-> panels,
          fixed_probabilities |-> FixProbabilities(people, fixed, d.y, d.objVal)]
    ELSE IF c.new_set \in panels
         THEN [kind |-> "AssertionError"]
         ELSE [kind |-> "add", committees |-> panels \cup {c.new_set},
               fixed_probabilities |-> fixed]

\* one pass of the inner `while True` after an optimal dual solve: every outcome
ColumnGeneration(people, feasible, panels, fixed, dual) ==
    UNION {{PricingOutcome(people, panels, fixed, d, c) : c \in OptimalCommittees(feasible, d.y)}
           : d \in DualSolutions(people, dual.panels, dual.fixed)}

\* new_committee_model.optimize() ends with a status that is neither optimal nor infeasible;
\* the status is not read.  ERROR: the variables have no value and _ilp_results_to_committee
\* raises ValueError.  FEASIBLE: the variables hold a feasible panel that need not be optimal.
PricingWithStatus(people, feasible, panels, fixed, dual, status) ==
    IF status = "ERROR"
    THEN {[kind |-> "ValueError"]}
    ELSE UNION {{PricingOutcome(people, panels, fixed, d, [new_set |-> S, value |-> SumOver(S, d.y)])
                 : S \in feasible}
                : d \in DualSolutions(people, dual.panels, dual.fixed)}

(***************************************************************************)
(* xmin.py: the reconstruction of the randomization                        *)
(***************************************************************************)
\* the probability of agent a under the weights of a list of panels
Marginal(committee_list, w, a) ==
    SumOver({j \in 1..Len(committee_list) : a \in committee_list[j]}, w)

\* the least eps that satisfies person_probability >= prob - eps for every fixed agent
PrimalSlack(committee_list, fixed, b) ==
    SetMax({0} \cup {fixed[a] - PrimalUnit * Marginal(committee_list, b, a) :
                        a \in DOMAIN fixed})

\* eps + sum of p ** 2, in units of 1/(Scale * PrimalGrid * PrimalGrid)
PrimalObjective(committee_list, fixed, b) ==
    PrimalSlack(committee_list, fixed, b) * PrimalGrid * PrimalGrid
    + Scale * SumOver(DOMAIN b, [j \in DOMAIN b |-> b[j] * b[j]])

\* primal.optimize(): the minimisers among the weight vectors that add up to 1
PrimalSolutions(committee_list, fixed) ==
    LET solved == {[b |-> b, objective |-> PrimalObjective(committee_list, fixed, b)] :
                      b \in SimplexGrid(1..Len(committee_list), PrimalGrid)}
        best == SetMin({d.objective : d \in solved})
    IN {[j \in 1..Len(committee_list) |-> d.b[j] * PrimalUnit] :
           d \in {e \in solved : e.objective = best}}

\* .clip(0, 1)
clip(x) == [j \in DOMAIN x |-> Max2(0, Min2(Scale, x[j]))]

\* a division by twice the sum
NormaliseByTwiceTheSum(x) == [j \in DOMAIN x |-> x[j] \div 2]
\* probabilities / sum(probabilities):  x * Scale / s  =  x - x * (s - Scale) / s
Normalise(x) ==
    LET s == SumSeq(x)
    IN [j \in DOMAIN x |-> x[j] - ((x[j] * (s - Scale)) \div s)]

(***************************************************************************)
(* xmin.py: _generate_initial_committees.  The weights are kept up to      *)
(* their common factor: the rescaling step changes only that factor, and   *)
(* makes the weights add up to len(agent_vars) before the smoothing step.  *)
(***************************************************************************)
InitialWeights(people) == [id \in DOMAIN people |-> 1]

\* weights[id] *= 0.8 for the members, then the smoothing 0.9 * w + 0.1 if the panel is known
UpdateWeights(w, new_set, known) ==
    LET decreased == [id \in DOMAIN w |->
                         IF id \in new_set THEN 4 * w[id] ELSE 5 * w[id]]
        total == SumOver(DOMAIN w, decreased)
    IN IF known
       THEN [id \in DOMAIN w |-> 9 * Cardinality(DOMAIN w) * decreased[id] + total]
       ELSE decreased

\* the second loop: a panel for each agent not yet covered, if there is one, else the line
\* "Agent {id} not contained in any feasible committee." (lines holds the ids of these lines)
RECURSIVE CoverScan(_, _, _, _, _, _)
CoverScan(feasible, n, id, panels, covered, lines) ==
    IF id >= n
    THEN {[committees |-> panels, covered_agents |-> covered, new_output_lines |-> lines]}
    ELSE IF id \in covered
         THEN CoverScan(feasible, n, id + 1, panels, covered, lines)
         ELSE UNION {IF id \in c.new_set
                     THEN CoverScan(feasible, n, id + 1, panels \cup {c.new_set},
                                    covered \cup c.new_set, lines)
                     ELSE CoverScan(feasible, n, id + 1, panels, covered, lines \cup {id})
                     : c \in OptimalCommittees(feasible,
                                               [a \in 0..(n - 1) |-> IF a = id THEN 1 ELSE 0])}

(***************************************************************************)
(* analysis.py: legacy_find                                                *)
(***************************************************************************)
\* columns_data = {agent_id: {} for agent_id in agents}
EmptyColumns(ags) == [a \in DOMAIN ags |-> <<>>]

NoStep == [before |-> {}, added |-> {}]

\* a table for the next attempt that is the one the previous attempt worked on
table_of_previous_attempt(table, previous) == previous
\* cat_copy = deepcopy(feature_info): a table equal to the caller's, sharing nothing with it and
\* nothing with the copy of the previous attempt
deepcopy_for_attempt(table, previous) == table

\* while True: deepcopy of the caller's tables, at the call and after a failed or rejected attempt
BeginAttempt ==
    /\ lpc \in {"call", "SelectionError", "rejected"}
    /\ cat_copy' = deepcopy_for_attempt(feature_info, cat_copy)
    /\ agents_copy' = DOMAIN agents
    /\ people_selected' = <<>>
    /\ count' = 0
    /\ lpc' = "loop"
    /\ last_step' = NoStep
    /\ UNCHANGED <<histogram_vars, feature_info, agents, k, xmin_vars>>

\* one iteration of `for count in range(number_people_wanted)`
SelectStep ==
    /\ lpc = "loop"
    /\ count < k
    /\ \E o \in LegacyIteration(cat_copy, agents, agents_copy, people_selected, count, k,
                                EmptyColumns(agents), FALSE) :
          IF o.status = "ok"
          THEN /\ cat_copy' = o.categories
               /\ agents_copy' = o.people
               /\ people_selected' = o.selected
               /\ count' = count + 1
               /\ lpc' = "loop"
               /\ last_step' = [before |-> agents_copy, added |-> o.added]
          ELSE /\ lpc' = o.status
               /\ UNCHANGED <<cat_copy, agents_copy, people_selected, count, last_step>>
    /\ UNCHANGED <<histogram_vars, feature_info, agents, k, xmin_vars>>

\* the loop is over: check_min_cats, then return list(people_selected.keys()) or go round again
FinishAttempt ==
    /\ lpc = "loop"
    /\ count >= k
    /\ lpc' = IF check_min_cats(cat_copy) THEN "returned" ELSE "rejected"
    /\ UNCHANGED <<histogram_vars, feature_info, agents, k, cat_copy, agents_copy, people_selected, count, last_step,
                   xmin_vars>>

(***************************************************************************)
(* analysis.py: legacy_find as a call: what the call can end with          *)
(***************************************************************************)
\* every way one attempt of the `while True` loop can end
RECURSIVE LegacyAttempt(_, _, _, _, _, _)
LegacyAttempt(categories, ags, people, selected, cnt, wanted) ==
    IF cnt >= wanted
    THEN {IF check_min_cats(categories)
          THEN [status |-> "returned", panel |-> SeqToSet(selected)]
          ELSE [status |-> "rejected"]}
    ELSE UNION {IF o.status = "ok"
                THEN LegacyAttempt(o.categories, ags, o.people, o.selected, cnt + 1, wanted)
                ELSE {[status |-> o.status]}
                : o \in LegacyIteration(categories, ags, people, selected, cnt, wanted,
                                        EmptyColumns(ags), FALSE)}

\* a returned panel, a KeyError, or no end when every attempt fails
legacy_find(categories, ags, wanted) ==
    LET ends == {o \in LegacyAttempt(categories, ags, DOMAIN ags, <<>>, 0, wanted) :
                    o.status \in {"returned", "KeyError"}}
    IN IF ends = {} THEN {[status |-> "legacy_find_loops"]} ELSE ends

(***************************************************************************)
(* xmin.py: _get_panel_not_in_portfolio_if_possible, find_distribution_xmin *)
(***************************************************************************)
\* a search that can also hand back a panel the portfolio already holds
_get_panel_without_membership_test(categories, ags, wanted, portfolio) ==
    IF Cardinality(DOMAIN ags) * 3 = 0
    THEN {[kind |-> "None"]}
    ELSE UNION {IF o.status # "returned" THEN {[kind |-> o.status]}
                ELSE IF o.panel \in SeqToSet(portfolio)
                     THEN {[kind |-> "None"], [kind |-> "panel", panel |-> o.panel]}
                     ELSE {[kind |-> "panel", panel |-> o.panel]}
                : o \in legacy_find(categories, ags, wanted)}

\* a search that gives up after one draw
DrawOnce(draws, portfolio, budget, d) ==
    IF d > budget THEN {[kind |-> "None", draws |-> budget]}
    ELSE {IF o.status # "returned" THEN [kind |-> o.status, draws |-> d]
          ELSE IF o.panel \in SeqToSet(portfolio) THEN [kind |-> "None", draws |-> d]
               ELSE [kind |-> "panel", panel |-> o.panel, draws |-> d]
          : o \in draws}
\* `for _ in range(len(agents) * 3)` from its d-th pass on: draws holds what one call of
\* legacy_find can give; the loop ends at the first panel not in the portfolio or when
\* legacy_find does not return a panel, and gives None after the last pass; the field draws of
\* an outcome is the number of calls of legacy_find made
RECURSIVE DrawLoop(_, _, _, _)
DrawLoop(draws, portfolio, budget, d) ==
    IF d > budget THEN {[kind |-> "None", draws |-> budget]}
    ELSE {[kind |-> o.status, draws |-> d] : o \in {q \in draws : q.status # "returned"}}
         \cup {[kind |-> "panel", panel |-> o.panel, draws |-> d]
                : o \in {q \in draws : q.status = "returned" /\ q.panel \notin SeqToSet(portfolio)}}
         \cup (IF \E o \in draws : o.status = "returned" /\ o.panel \in SeqToSet(portfolio)
               THEN DrawLoop(draws, portfolio, budget, d + 1)
               ELSE {})

\* len(agents) * 3 draws of legacy_find: the first panel not in the portfolio, or None
_get_panel_not_in_portfolio_if_possible(categories, ags, wanted, portfolio) ==
    {IF r.kind = "panel" THEN [kind |-> "panel", panel |-> r.panel] ELSE [kind |-> r.kind]
     : r \in DrawLoop(legacy_find(categories, ags, wanted), portfolio,
                      Cardinality(DOMAIN ags) * 3, 1)}

\* households = _compute_households(...) if check_same_address else None
Households == IF check_same_address THEN _compute_households(agents, columns_data) ELSE <<>>

\* the solutions of the new_committee_model of this run
Feasible == FeasibleCommittees(feature_info, agents, k, check_same_address, Households)

\* the number of rounds find_distribution_leximin asks for: 2 * |pool|, at most MaxRounds here
multiplicative_weights_rounds == Min2(2 * Cardinality(DOMAIN agents), MaxRounds)

\* find_distribution_leximin, first part: build the IP, or raise
CallLeximin ==
    /\ xpc = "call"
    /\ \E r \in _setup_committee_generation(feature_info, agents, k, check_same_address, Households) :
          IF r.error # ""
          THEN /\ xpc' = r.error
               /\ raised' = r
               /\ UNCHANGED <<caller, builder_vars>>
          ELSE /\ xpc' = "builder"
               /\ caller' = "find_distribution_leximin"
               /\ weights' = InitialWeights(agents)
               /\ rounds' = 0
               /\ UNCHANGED raised
    /\ UNCHANGED <<legacy_vars, histogram_vars, instance_vars, engine_vars, result_vars, leximin_vars>>

\* _generate_initial_committees: one round of the multiplicative-weights loop
MWRound ==
    /\ xpc = "builder"
    /\ rounds < multiplicative_weights_rounds
    /\ \E c \in OptimalCommittees(Feasible, weights) :
          /\ weights' = UpdateWeights(weights, c.new_set, c.new_set \in committees)
          /\ committees' = committees \cup {c.new_set}
          /\ covered_agents' = covered_agents \cup c.new_set
    /\ rounds' = rounds + 1
    /\ UNCHANGED <<legacy_vars, histogram_vars, instance_vars, xpc, caller, fixed_probabilities, reduction_counter,
                   dual_model,
                   result_vars, leximin_vars, raised>>

\* _generate_initial_committees: the loop over the uncovered agents and the final assert;
\* find_distribution_leximin then enters the engine
CoverAgents ==
    /\ xpc = "builder"
    /\ rounds >= multiplicative_weights_rounds
    /\ \E r \in CoverScan(Feasible, Cardinality(DOMAIN agents), 0, committees, covered_agents, {}) :
          IF r.committees = {}
          THEN /\ xpc' = "AssertionError"
               /\ raised' = [error |-> "AssertionError"]
               /\ UNCHANGED engine_vars
          ELSE /\ xpc' = "engine"
               /\ committees' = r.committees
               /\ covered_agents' = r.covered_agents
               /\ fixed_probabilities' = <<>>
               /\ reduction_counter' = 0
               /\ dual_model' = OuterLoopDual(agents, committees', fixed_probabilities', dual_model)
               /\ UNCHANGED raised
    /\ UNCHANGED <<legacy_vars, histogram_vars, instance_vars, caller, builder_vars, result_vars, leximin_vars>>

\* the inner loop, dual_model.status != OPTIMAL: relax every fixed probability and go on
ReduceProbs ==
    /\ xpc = "engine"
    /\ Cardinality(DOMAIN fixed_probabilities) < Cardinality(DOMAIN agents)
    /\ reduction_counter < MaxReductions
    /\ fixed_probabilities' = ReduceProbabilities(fixed_probabilities)
    /\ dual_model' = DualAfterReduction(agents, committees, fixed_probabilities', dual_model)
    /\ reduction_counter' = reduction_counter + 1
    /\ UNCHANGED <<legacy_vars, histogram_vars, instance_vars, xpc, caller, builder_vars, committees, covered_agents,
                   result_vars, leximin_vars, raised>>

\* the inner loop, dual_model.status == OPTIMAL: add the violated panel, or fix and leave the loop
ColumnGenerationStep ==
    /\ xpc = "engine"
    /\ Cardinality(DOMAIN fixed_probabilities) < Cardinality(DOMAIN agents)
    /\ \E o \in ColumnGeneration(agents, Feasible, committees, fixed_probabilities, dual_model) :
          IF o.kind = "AssertionError"
          THEN /\ xpc' = "AssertionError"
               /\ raised' = [error |-> "AssertionError"]
               /\ UNCHANGED <<committees, fixed_probabilities, dual_model>>
          ELSE /\ committees' = o.committees
               /\ fixed_probabilities' = o.fixed_probabilities
               /\ dual_model' = IF o.kind = "add"
                                THEN AddConstr(dual_model, o.committees \ committees)
                                ELSE OuterLoopDual(agents, committees', fixed_probabilities',
                                                   dual_model)
               /\ UNCHANGED <<xpc, raised>>
    /\ UNCHANGED <<legacy_vars, histogram_vars, instance_vars, caller, builder_vars, covered_agents, reduction_counter,
                   result_vars, leximin_vars>>

\* every probability is fixed: solve the primal, clip, renormalise and return to the caller
Reconstruct ==
    /\ xpc = "engine"
    /\ Cardinality(DOMAIN fixed_probabilities) >= Cardinality(DOMAIN agents)
    /\ \E x \in PrimalSolutions(SetToList(committees), fixed_probabilities) :
          \E e \in (0 - SolverNoise)..SolverNoise :
             /\ primal_x' = [j \in DOMAIN x |-> x[j] + e]
             /\ probabilities' = Normalise(clip(primal_x'))
    /\ initial_portfolio' = SetToList(committees)
    /\ IF caller = "find_distribution_leximin"
       THEN /\ leximin_portfolio' = initial_portfolio'
            /\ leximin_probabilities' = probabilities'
            /\ i' = 0
       ELSE /\ i' = i + 1
            /\ UNCHANGED leximin_vars
    /\ xpc' = "extend"
    /\ UNCHANGED <<legacy_vars, histogram_vars, instance_vars, caller, builder_vars, engine_vars, raised>>

\* the statuses of python-mip and of gurobipy that are neither optimal nor infeasible: without
\* a solution, or with a solution that is not proven optimal
MipStatuses == {"ERROR", "FEASIBLE"}
GurobiStatuses == {"NUMERIC", "SUBOPTIMAL"}

\* _setup_committee_generation: the first solve ends with such a status
SetupStatus ==
    /\ xpc = "call"
    /\ \E status \in MipStatuses :
          /\ xpc' = "SelectionError"
          /\ raised' = [error |-> "SelectionError", code |-> status]
    /\ UNCHANGED <<legacy_vars, histogram_vars, instance_vars, caller, builder_vars, engine_vars, result_vars,
                   leximin_vars>>

\* the inner loop: the dual is solved to optimality, the pricing solve ends with such a status
PricingStatus ==
    /\ xpc = "engine"
    /\ Cardinality(DOMAIN fixed_probabilities) < Cardinality(DOMAIN agents)
    /\ \E status \in MipStatuses :
          \E o \in PricingWithStatus(agents, Feasible, committees, fixed_probabilities, dual_model, status) :
             IF o.kind \in {"AssertionError", "ValueError"}
             THEN /\ xpc' = o.kind
                  /\ raised' = [error |-> o.kind]
                  /\ UNCHANGED <<committees, fixed_probabilities, dual_model>>
             ELSE /\ committees' = o.committees
                  /\ fixed_probabilities' = o.fixed_probabilities
                  /\ dual_model' = IF o.kind = "add"
                                   THEN AddConstr(dual_model, o.committees \ committees)
                                   ELSE OuterLoopDual(agents, committees', fixed_probabilities',
                                                      dual_model)
                  /\ UNCHANGED <<xpc, raised>>
    /\ UNCHANGED <<legacy_vars, histogram_vars, instance_vars, caller, builder_vars, covered_agents, reduction_counter,
                   result_vars, leximin_vars>>

\* primal.optimize() ends with such a status; the status is not read.  NUMERIC: comm_var.x
\* raises AttributeError.  SUBOPTIMAL: the variables hold weights that add up to 1.
ReconstructStatus ==
    /\ xpc = "engine"
    /\ Cardinality(DOMAIN fixed_probabilities) >= Cardinality(DOMAIN agents)
    /\ \E status \in GurobiStatuses :
          IF status = "NUMERIC"
          THEN /\ xpc' = "AttributeError"
               /\ raised' = [error |-> "AttributeError"]
               /\ UNCHANGED <<result_vars, leximin_vars>>
          ELSE /\ \E b \in SimplexGrid(1..Cardinality(committees), PrimalGrid) :
                     /\ primal_x' = [j \in 1..Cardinality(committees) |-> b[j] * PrimalUnit]
                     /\ probabilities' = Normalise(clip(primal_x'))
               /\ initial_portfolio' = SetToList(committees)
               /\ IF caller = "find_distribution_leximin"
                  THEN /\ leximin_portfolio' = initial_portfolio'
                       /\ leximin_probabilities' = probabilities'
                       /\ i' = 0
                  ELSE /\ i' = i + 1
                       /\ UNCHANGED leximin_vars
               /\ xpc' = "extend"
               /\ UNCHANGED raised
    /\ UNCHANGED <<legacy_vars, histogram_vars, instance_vars, caller, builder_vars, engine_vars>>

\* `for i in range(number_of_iterations)`: look for a new panel; stop, or enter the engine with it
ExtendIteration ==
    /\ xpc = "extend"
    /\ IF i >= Cardinality(DOMAIN agents) * 5
       THEN /\ xpc' = "returned"
            /\ UNCHANGED <<caller, engine_vars, initial_portfolio, raised>>
       ELSE \E r \in _get_panel_not_in_portfolio_if_possible(feature_info, agents, k,
                                                             initial_portfolio) :
               IF r.kind = "None"
               THEN /\ xpc' = "returned"
                    /\ UNCHANGED <<caller, engine_vars, initial_portfolio, raised>>
               ELSE IF r.kind = "panel"
                    THEN /\ initial_portfolio' = Append(initial_portfolio, r.panel)
                         /\ committees' = SeqToSet(initial_portfolio')
                         /\ covered_agents' = UNION committees'
                         /\ fixed_probabilities' = <<>>
                         /\ reduction_counter' = 0
                         /\ dual_model' = OuterLoopDual(agents, committees', fixed_probabilities',
                                                        dual_model)
                         /\ caller' = "find_distribution_xmin"
                         /\ xpc' = "engine"
                         /\ UNCHANGED raised
                    ELSE /\ xpc' = r.kind
                         /\ raised' = [error |-> r.kind]
                         /\ UNCHANGED <<caller, engine_vars, initial_portfolio>>
    /\ UNCHANGED <<legacy_vars, histogram_vars, instance_vars, builder_vars, primal_x, probabilities, i, leximin_vars>>

(***************************************************************************)
(* analysis.py: PairHistogram                                              *)
(***************************************************************************)
\* __init__: the keys (i, j) with i < j, each with the value 0
PairHistogram(number_of_agents) ==
    [key \in {p \in (0..(number_of_agents - 1)) \X (0..(number_of_agents - 1)) : p[1] < p[2]}
        |-> 0]

\* key = list(key); key.sort(); tuple(key)
SortedKey(key) == IF key[1] <= key[2] THEN key ELSE <<key[2], key[1]>>

\* __getitem__: the value stored under the sorted key, or KeyError
HistogramGetItem(histogram, key) ==
    IF SortedKey(key) \in DOMAIN histogram
    THEN [error |-> "", value |-> histogram[SortedKey(key)]]
    ELSE [error |-> "KeyError"]

\* __setitem__: the dict assignment under the sorted key, which adds the key if it is new
HistogramSetItem(histogram, key, value) ==
    [kk \in DOMAIN histogram \cup {SortedKey(key)} |->
        IF kk = SortedKey(key) THEN value ELSE histogram[kk]]

\* the two loops over the positions ix < jx of one panel: self[(panel[ix], panel[jx])] += pob
RECURSIVE AddPanel(_, _, _, _, _)
AddPanel(histogram, panel, pob, ix, jx) ==
    IF ix > Len(panel) THEN [error |-> "", histogram |-> histogram]
    ELSE IF jx > Len(panel) THEN AddPanel(histogram, panel, pob, ix + 1, ix + 2)
         ELSE LET key == <<panel[ix], panel[jx]>>
                  old == HistogramGetItem(histogram, key)
              IN IF old.error # "" THEN [error |-> old.error]
                 ELSE AddPanel(HistogramSetItem(histogram, key, old.value + pob), panel, pob,
                               ix, jx + 1)

\* add_portfolio_of_panels_to_histogram: the loop over zip(portfolio, probabilities)
RECURSIVE add_portfolio_of_panels_to_histogram(_, _, _, _)
add_portfolio_of_panels_to_histogram(histogram, portfolio, panel_probabilities, px) ==
    IF px > Min2(Len(portfolio), Len(panel_probabilities))
    THEN [error |-> "", histogram |-> histogram]
    ELSE LET r == AddPanel(histogram, portfolio[px], panel_probabilities[px], 1, 2)
         IN IF r.error # "" THEN r
            ELSE add_portfolio_of_panels_to_histogram(r.histogram, portfolio,
                                                      panel_probabilities, px + 1)

\* the largest value a histogram entry takes in the model, the longest portfolio of one call
MaxValue == 2
MaxPanels == 2

\* list(panel) of a panel: its agents in any order
PanelLists ==
    {l \in UNION {[1..m -> DOMAIN agents] : m \in 0..Cardinality(DOMAIN agents)} :
        \A a \in DOMAIN l : \A b \in DOMAIN l : a # b => l[a] # l[b]}

\* a call of __setitem__ with a key of two agent ids
SetItem ==
    /\ \E key \in (DOMAIN agents) \X (DOMAIN agents) : \E value \in 0..MaxValue :
          pair_histogram' = HistogramSetItem(pair_histogram, key, value)
    /\ UNCHANGED <<legacy_vars, xmin_vars>>

\* a call of add_portfolio_of_panels_to_histogram
AddPortfolio ==
    /\ \E m \in 1..MaxPanels : \E portfolio \in [1..m -> PanelLists] :
          \E panel_probabilities \in [1..m -> 1..MaxValue] :
             LET r == add_portfolio_of_panels_to_histogram(pair_histogram, portfolio,
                                                          panel_probabilities, 1)
             IN /\ r.error = ""
                /\ \A key \in DOMAIN r.histogram : r.histogram[key] <= MaxValue
                /\ pair_histogram' = r.histogram
    /\ UNCHANGED <<legacy_vars, xmin_vars>>

(***************************************************************************)
(* Instances: a pool of at most MaxAgents agents, quotas 0 <= min <= max   *)
(* <= MaxQuota (the format of categories.csv), panel size 0..MaxAgents.    *)
(***************************************************************************)
QuotaPairs == {q \in (0..MaxQuota) \X (0..MaxQuota) : q[1] <= q[2]}
Persons == {p \in [Cats -> {"f", "m", "old", "young"}] :
               \A c \in Cats : p[c] \in SeqToSet(FeatureOrder[c])}
\* rank of a person's feature combination, used to list a pool type by type
TypeRank(p) == (IF p["gender"] = "f" THEN 0 ELSE 2) + (IF p["age"] = "old" THEN 0 ELSE 1)
RECURSIVE SortedTypes(_)
SortedTypes(S) ==
    IF S = {} THEN <<>>
    ELSE LET p == CHOOSE p \in S : \A q \in S : TypeRank(p) <= TypeRank(q)
         IN <<p>> \o SortedTypes(S \ {p})
\* pools up to renaming of the agents: agents 0..n-1 listed type by type
Pools == UNION {{ags \in [0..(n - 1) -> Persons] :
                    \A a \in 0..(n - 2) : TypeRank(ags[a]) <= TypeRank(ags[a + 1])}
                : n \in 0..MaxAgents}
\* the feature combinations in the order of TypeRank
TypeOrder == SortedTypes(Persons)
\* the pools with one agent of each of the first n feature combinations
DistinctPools == {[a \in 0..(n - 1) |-> TypeOrder[a + 1]] : n \in 0..Cardinality(Persons)}
\* address columns up to renaming of the addresses, the members of a household next to each other
AddressTables(ags) ==
    {cd \in [DOMAIN ags -> {<<h>> : h \in 1..MaxAddresses}] :
        \A a \in DOMAIN ags : /\ a = 0 => cd[a][1] = 1
                              /\ a > 0 => cd[a][1] \in {cd[a - 1][1], cd[a - 1][1] + 1}}

NoResult == [error |-> ""]

InitLegacy ==
    /\ agents \in Pools
    /\ \E quotas \in [FV -> QuotaPairs] : feature_info = read_instance(quotas, agents)
    /\ k \in 0..MaxAgents
    /\ cat_copy = feature_info
    /\ agents_copy = DOMAIN agents
    /\ people_selected = <<>>
    /\ count = 0
    /\ lpc = "call"
    /\ last_step = NoStep
    /\ columns_data = EmptyColumns(agents)
    /\ check_same_address = FALSE
    /\ xpc = "idle"
    /\ caller = ""
    /\ weights = <<>>
    /\ rounds = 0
    /\ committees = {}
    /\ covered_agents = {}
    /\ fixed_probabilities = <<>>
    /\ reduction_counter = 0
    /\ dual_model = NoDual
    /\ primal_x = <<>>
    /\ initial_portfolio = <<>>
    /\ probabilities = <<>>
    /\ i = 0
    /\ leximin_portfolio = <<>>
    /\ leximin_probabilities = <<>>
    /\ raised = NoResult
    /\ pair_histogram = <<>>

NextLegacy == BeginAttempt \/ SelectStep \/ FinishAttempt

SpecLegacy == InitLegacy /\ [][NextLegacy]_vars

(***************************************************************************)
(* analysis.py: legacy_probabilities, up to its first call of legacy_find  *)
(***************************************************************************)
\* the sum of a field of the quotas over the feature values of one category
RECURSIVE QuotaSumFrom(_, _, _, _)
QuotaSumFrom(categories, category, field, ix) ==
    IF ix > Len(FeatureOrder[category]) THEN 0
    ELSE categories[<<category, FeatureOrder[category][ix]>>][field]
         + QuotaSumFrom(categories, category, field, ix + 1)

\* a test of the sums of the lower quotas only
lower_sums_pass(categories, wanted) ==
    \A ix \in 1..Len(CategoryOrder) : QuotaSumFrom(categories, CategoryOrder[ix], "min", 1) <= wanted
\* the two asserts in the loop `for category in categories`
quota_sum_asserts_pass(categories, wanted) ==
    \A ix \in 1..Len(CategoryOrder) :
        /\ QuotaSumFrom(categories, CategoryOrder[ix], "min", 1) <= wanted
        /\ QuotaSumFrom(categories, CategoryOrder[ix], "max", 1) >= wanted

\* legacy_probabilities from its entry to the first iteration of its loop: the histogram is
\* made, the asserts are run, and legacy_find is called if they pass
CheckQuotaSums ==
    /\ lpc = "legacy_probabilities"
    /\ lpc' = IF quota_sum_asserts_pass(feature_info, k) THEN "call" ELSE "AssertionError"
    /\ pair_histogram' = PairHistogram(Cardinality(DOMAIN agents))
    /\ UNCHANGED <<feature_info, agents, k, cat_copy, agents_copy, people_selected, count, last_step,
                   xmin_vars>>

InitProbabilities ==
    /\ agents \in Pools
    /\ \E quotas \in [FV -> QuotaPairs] : feature_info = read_instance(quotas, agents)
    /\ k \in 0..MaxAgents
    /\ cat_copy = feature_info
    /\ agents_copy = DOMAIN agents
    /\ people_selected = <<>>
    /\ count = 0
    /\ lpc = "legacy_probabilities"
    /\ last_step = NoStep
    /\ columns_data = EmptyColumns(agents)
    /\ check_same_address = FALSE
    /\ xpc = "idle"
    /\ caller = ""
    /\ weights = <<>>
    /\ rounds = 0
    /\ committees = {}
    /\ covered_agents = {}
    /\ fixed_probabilities = <<>>
    /\ reduction_counter = 0
    /\ dual_model = NoDual
    /\ primal_x = <<>>
    /\ initial_portfolio = <<>>
    /\ probabilities = <<>>
    /\ i = 0
    /\ leximin_portfolio = <<>>
    /\ leximin_probabilities = <<>>
    /\ raised = NoResult
    /\ pair_histogram = <<>>

NextProbabilities == CheckQuotaSums \/ NextLegacy

SpecProbabilities == InitProbabilities /\ [][NextProbabilities]_vars

\* pair_histogram = PairHistogram(len(agents)) for a pool, no selection running
InitHistogram ==
    /\ agents \in DistinctPools
    /\ Cardinality(DOMAIN agents) <= MaxAgents
    /\ feature_info = read_instance([fv \in FV |-> <<0, MaxQuota>>], agents)
    /\ k = 0
    /\ cat_copy = feature_info
    /\ agents_copy = DOMAIN agents
    /\ people_selected = <<>>
    /\ count = 0
    /\ lpc = "idle"
    /\ last_step = NoStep
    /\ columns_data = EmptyColumns(agents)
    /\ check_same_address = FALSE
    /\ xpc = "idle"
    /\ caller = ""
    /\ weights = <<>>
    /\ rounds = 0
    /\ committees = {}
    /\ covered_agents = {}
    /\ fixed_probabilities = <<>>
    /\ reduction_counter = 0
    /\ dual_model = NoDual
    /\ primal_x = <<>>
    /\ initial_portfolio = <<>>
    /\ probabilities = <<>>
    /\ i = 0
    /\ leximin_portfolio = <<>>
    /\ leximin_probabilities = <<>>
    /\ raised = NoResult
    /\ pair_histogram = PairHistogram(Cardinality(DOMAIN agents))

NextHistogram == SetItem \/ AddPortfolio

SpecHistogram == InitHistogram /\ [][NextHistogram]_vars

\* an instance handed to find_distribution_xmin, before the call, its quotas from a set of tables
InstanceWith(tables) ==
    /\ agents \in DistinctPools
    /\ \E quotas \in tables : feature_info = read_instance(quotas, agents)
    /\ k \in 0..MaxAgents
    /\ check_same_address \in BOOLEAN
    /\ columns_data \in IF check_same_address THEN AddressTables(agents) ELSE {EmptyColumns(agents)}
    /\ cat_copy = feature_info
    /\ agents_copy = DOMAIN agents
    /\ people_selected = <<>>
    /\ count = 0
    /\ lpc = "idle"
    /\ last_step = NoStep
    /\ xpc = "call"
    /\ caller = ""
    /\ weights = <<>>
    /\ rounds = 0
    /\ committees = {}
    /\ covered_agents = {}
    /\ fixed_probabilities = <<>>
    /\ reduction_counter = 0
    /\ dual_model = NoDual
    /\ primal_x = <<>>
    /\ initial_portfolio = <<>>
    /\ probabilities = <<>>
    /\ i = 0
    /\ leximin_portfolio = <<>>
    /\ leximin_probabilities = <<>>
    /\ raised = NoResult
    /\ pair_histogram = <<>>

Instance == InstanceWith([FV -> QuotaPairs])

\* a panel of two with one agent of each gender
BalancedPair ==
    /\ k = 2
    /\ ~check_same_address
    /\ \A fv \in FV : fv[1] = "gender" => (feature_info[fv].min = 1 /\ feature_info[fv].max = 1)

\* the first call of a run: every instance with a pool of up to MaxAgents agents
InitSetup ==
    /\ Instance
    /\ Cardinality(DOMAIN agents) <= MaxAgents

NextSetup == CallLeximin

SpecSetup == InitSetup /\ [][NextSetup]_vars

\* the first call of a run on quota tables whose gender quotas go up to MaxWideQuota
MaxWideQuota == 3
WideQuotaPairs == {q \in (0..MaxWideQuota) \X (0..MaxWideQuota) : q[1] <= q[2]}
WideTables == {t \in [FV -> WideQuotaPairs] : \A fv \in FV : fv[1] = "age" => t[fv] \in QuotaPairs}

InitDiagnoser ==
    /\ InstanceWith(WideTables)
    /\ Cardinality(DOMAIN agents) <= MaxAgents

NextDiagnoser == CallLeximin

SpecDiagnoser == InitDiagnoser /\ [][NextDiagnoser]_vars

\* a whole run: the instances with upper quotas only on age, a larger pool for balanced pairs
InitXmin ==
    /\ Instance
    /\ \A fv \in FV : fv[1] = "age" => feature_info[fv].min = 0
    /\ Cardinality(DOMAIN agents) > MaxAgents => BalancedPair

NextXmin ==
    \/ CallLeximin
    \/ MWRound
    \/ CoverAgents
    \/ ReduceProbs
    \/ ColumnGenerationStep
    \/ Reconstruct
    \/ ExtendIteration

SpecXmin == InitXmin /\ [][NextXmin]_vars

\* a whole run in which a solve may end with a status that is neither optimal nor infeasible
InitSolver ==
    /\ InitXmin
    /\ Cardinality(DOMAIN agents) <= MaxAgents
    /\ ~check_same_address

NextSolver ==
    \/ NextXmin
    \/ SetupStatus
    \/ PricingStatus
    \/ ReconstructStatus

SpecSolver == InitSolver /\ [][NextSolver]_vars

(***************************************************************************)
(* Properties of legacy_find (SpecLegacy)                                  *)
(***************************************************************************)
\* the panel a completed attempt returns
ReturnedPanel == SeqToSet(people_selected)

\* C1: every panel returned by legacy_find satisfies every quota: for each feature value v,
\* min(v) <= number of panel members holding v <= max(v).
C1_ReturnedPanelMeetsQuotas ==
    lpc = "returned" =>
        \A fv \in FV : /\ feature_info[fv].min <= Holders(agents, ReturnedPanel, fv)
                       /\ Holders(agents, ReturnedPanel, fv) <= feature_info[fv].max

\* C2: every panel returned by legacy_find consists of exactly k distinct agents, and every
\* selection step of an attempt adds exactly one agent that was still in the live pool.
C2_ReturnedPanelHasKAgents ==
    /\ lpc = "returned" => /\ Cardinality(ReturnedPanel) = k
                           /\ Len(people_selected) = k
    /\ (lpc \in {"loop", "returned", "rejected"} /\ count >= 1) =>
           /\ Cardinality(last_step.added) = 1
           /\ last_step.added \subseteq last_step.before

\* C4: if a feature value has min = max = 0, no agent holding it is in a panel returned by
\* legacy_find.
C4_ZeroQuotaHoldersExcluded ==
    lpc = "returned" =>
        \A fv \in FV : (feature_info[fv].min = 0 /\ feature_info[fv].max = 0) =>
                           Holders(agents, ReturnedPanel, fv) = 0

(***************************************************************************)
(* Properties of find_distribution_xmin (SpecXmin)                         *)
(***************************************************************************)
\* the integers of a bag given as a function, in ascending order
RECURSIVE SortAscending(_)
SortAscending(f) ==
    IF DOMAIN f = {} THEN <<>>
    ELSE LET a == CHOOSE a \in DOMAIN f : \A b \in DOMAIN f : f[a] <= f[b]
         IN <<f[a]>> \o SortAscending([b \in DOMAIN f \ {a} |-> f[b]])

\* the selection probabilities of the agents under a portfolio and its weights, sorted ascending
SortedMarginals(portfolio, panel_weights) ==
    SortAscending([a \in DOMAIN agents |-> Marginal(portfolio, panel_weights, a)])

\* u is lexicographically below v by more than the tolerance
LexBelow(u, v) ==
    \E j \in 1..Len(u) : /\ u[j] < v[j] - EPS
                         /\ \A h \in 1..(j - 1) : u[h] <= v[h] + EPS /\ v[h] <= u[h] + EPS

\* the distributions over the feasible panels with weights that are multiples of 1/PrimalGrid
FeasibleDistributions ==
    {[j \in DOMAIN b |-> b[j] * PrimalUnit] :
        b \in SimplexGrid(1..Cardinality(Feasible), PrimalGrid)}

\* C3: with check_same_address true, every panel of the portfolio returned by
\* find_distribution_xmin contains at most one member of each household.
C3_PortfolioRespectsHouseholds ==
    (xpc = "returned" /\ check_same_address) =>
        \A j \in 1..Len(initial_portfolio) : HouseholdConstraint(Households, initial_portfolio[j])

\* C5: find_distribution_xmin returns pairwise distinct panels and exactly one weight per
\* panel, at whichever iteration the extension loop stops.
C5_DistinctPanelsOneWeightEach ==
    xpc = "returned" =>
        /\ Len(probabilities) = Len(initial_portfolio)
        /\ \A a \in 1..Len(initial_portfolio) : \A b \in 1..Len(initial_portfolio) :
               a # b => initial_portfolio[a] # initial_portfolio[b]

C5_Witness ==
    /\ xpc = "returned"
    /\ i >= 1
    /\ Len(initial_portfolio) > Len(leximin_portfolio)

\* C6: the weights the engine returns are the primal's values clipped to [0, 1] and divided by
\* their sum; that sum is not 0, every weight is non-negative, and the weights add up to 1
\* within 5e-4.
C6_WeightsNormalised ==
    xpc \in {"extend", "returned"} =>
        /\ SumSeq(clip(primal_x)) > 0
        /\ probabilities = Normalise(clip(primal_x))
        /\ \A j \in 1..Len(probabilities) : probabilities[j] >= 0
        /\ SumSeq(probabilities) <= Scale + EPS
        /\ SumSeq(probabilities) >= Scale - EPS

C6_Witness ==
    /\ xpc = "extend"
    /\ SumSeq(clip(primal_x)) # Scale
    /\ probabilities # primal_x

\* C7 as stated: when LEXIMIN's portfolio has fewer panels than there are feasible panels, the
\* portfolio find_distribution_xmin returns strictly contains LEXIMIN's.
C7_StrictlyContainsLeximin ==
    (xpc = "returned" /\ Len(leximin_portfolio) < Cardinality(Feasible)) =>
        /\ SeqToSet(leximin_portfolio) \subseteq SeqToSet(initial_portfolio)
        /\ SeqToSet(leximin_portfolio) # SeqToSet(initial_portfolio)

\* C7 amended: the returned portfolio contains LEXIMIN's; it is strictly larger exactly when
\* the extension loop found a panel outside the portfolio, and equals LEXIMIN's when the draws
\* of the first iteration all fell inside it.
C7_ContainsLeximinStrictIffExtended ==
    xpc = "returned" =>
        /\ SeqToSet(leximin_portfolio) \subseteq SeqToSet(initial_portfolio)
        /\ i >= 1 => Len(initial_portfolio) > Len(leximin_portfolio)
        /\ i = 0 => initial_portfolio = leximin_portfolio

C7_Witness ==
    /\ xpc = "returned"
    /\ i = 0
    /\ Len(leximin_portfolio) < Cardinality(Feasible)

\* C8: the marginals of the distribution the engine returns are leximin-optimal: sorted
\* ascending they are lexicographically >= (up to 5e-4) the sorted marginals of every other
\* distribution over feasible panels.
C8_EngineMarginalsLeximinOptimal ==
    xpc = "extend" =>
        \A q \in FeasibleDistributions :
            ~LexBelow(SortedMarginals(initial_portfolio, probabilities),
                      SortedMarginals(SetToList(Feasible), q))

\* C9: the sorted marginals of the distribution find_distribution_xmin holds after any number
\* of extension iterations are lexicographically >= those of the LEXIMIN distribution it
\* started from.
C9_XminMarginalsDominateLeximin ==
    xpc \in {"extend", "returned"} =>
        ~LexBelow(SortedMarginals(initial_portfolio, probabilities),
                  SortedMarginals(leximin_portfolio, leximin_probabilities))

(***************************************************************************)
(* Properties of the first call of a run (SpecSetup)                       *)
(***************************************************************************)
\* the panels of size k the relaxation model of the diagnoser admits
Relaxable == RelaxedPanels(agents, k, check_same_address, Households, {})

Selectable ==
    {S \in SUBSET DOMAIN agents : /\ Cardinality(S) = k
                                  /\ check_same_address => HouseholdConstraint(Households, S)}

\* panel S satisfies the quotas q (fv -> <<lower, upper>>)
Admits(q, S) == \A fv \in FV : /\ q[fv][1] <= Holders(agents, S, fv)
                               /\ Holders(agents, S, fv) <= q[fv][2]

\* the cost of the relaxation q, times CostScale: (1 + 2/min(v)) per unit a lower quota min(v) > 0
\* is lowered, 1 per unit an upper quota is raised
RelaxationCost(q) ==
    SumOver(FV, [fv \in FV |->
        (IF feature_info[fv].min = 0 THEN 0
         ELSE (CostScale + (2 * CostScale) \div feature_info[fv].min)
                  * (feature_info[fv].min - q[fv][1]))
        + CostScale * (q[fv][2] - feature_info[fv].max)])

\* the cheapest relaxation that admits S
LeastRelaxation(S) ==
    [fv \in FV |-> <<Min2(feature_info[fv].min, Holders(agents, S, fv)),
                     Max2(feature_info[fv].max, Holders(agents, S, fv))>>]

\* the returned quotas admit a panel, at the least cost of a relaxation that does
RelaxationIsMinimal ==
    /\ \E S \in Selectable : Admits(raised.quotas, S)
    /\ \A S \in Selectable : RelaxationCost(raised.quotas) <= RelaxationCost(LeastRelaxation(S))

\* the feature values with min = max = 3 that only 2 agents hold
ThreeWantedTwoHeld ==
    {fv \in FV : /\ feature_info[fv].min = 3
                 /\ feature_info[fv].max = 3
                 /\ PoolCount(agents, fv) = 2}

AbnormalSolve == SetupStatus \/ PricingStatus \/ ReduceProbs \/ ReconstructStatus

\* C12: every LP or IP solve that returns a status that is neither optimal nor infeasible ends
\* the run with a SelectionError carrying the solver code: the first feasibility solve, each
\* pricing solve, each dual LP solve and the reconstruction solve.
C12_AbnormalStatusRaisesSelectionError ==
    [][AbnormalSolve => (xpc' = "SelectionError" /\ "code" \in DOMAIN raised')]_vars

(***************************************************************************)
(* Further properties of legacy_find (SpecLegacy)                          *)
(***************************************************************************)
\* C13: every attempt that cannot complete a panel fails with SelectionError, after which
\* legacy_find starts a fresh attempt; no other kind of error escapes an attempt, also when no
\* feature value with remaining > 0 and max > 0 is left while agents remain.
C13_FailedAttemptsRaiseSelectionError ==
    /\ lpc \in {"call", "loop", "SelectionError", "rejected", "returned"}
    /\ lpc = "SelectionError" => ENABLED BeginAttempt

\* C14: a run with panel size k = 0 is rejected: neither legacy_find nor
\* find_distribution_xmin returns a panel or a portfolio for k = 0.
C14_ZeroPanelSizeRejected ==
    k = 0 => (lpc # "returned" /\ xpc # "returned")

(***************************************************************************)
(* Properties of PairHistogram (SpecHistogram)                             *)
(***************************************************************************)
AgentIds == DOMAIN agents
CanonicalPairs == {p \in AgentIds \X AgentIds : p[1] < p[2]}
DiagonalPairs == {p \in AgentIds \X AgentIds : p[1] = p[2]}

\* reading key (i, j) and reading key (j, i) give the same result
ReadsAreSymmetric ==
    \A a \in AgentIds : \A b \in AgentIds :
        HistogramGetItem(pair_histogram, <<a, b>>) = HistogramGetItem(pair_histogram, <<b, a>>)

InitialCommitteesReturns ==
    {r \in CoverScan(Feasible, Cardinality(DOMAIN agents), 0, committees, covered_agents, {}) :
        r.committees # {}}

\* the agents that some feasible panel contains
Coverable == UNION Feasible

\* C16: on exit from _generate_initial_committees, after any number of multiplicative-weights
\* rounds, every agent contained in some feasible panel is in a returned panel, every agent
\* reported as not coverable is in no feasible panel, and covered_agents is the union of the
\* returned panels.
C16_InitialCommitteesCoverEveryCoverableAgent ==
    xpc = "builder" =>
        \A r \in InitialCommitteesReturns :
            /\ Coverable \subseteq UNION r.committees
            /\ r.new_output_lines \cap Coverable = {}
            /\ r.covered_agents = UNION r.committees

\* a return after no round and one after the last round, with a reported agent and a covered one
C16_Witness ==
    /\ xpc = "builder"
    /\ rounds \in {0, multiplicative_weights_rounds}
    /\ \E r \in InitialCommitteesReturns :
          /\ r.new_output_lines # {}
          /\ r.covered_agents # {}
          /\ r.covered_agents # covered_agents

(***************************************************************************)
(* Properties of the selection step (SpecLegacy)                           *)
(***************************************************************************)
\* the feature values a step can pick through: people remain and the upper quota is not 0
Eligible(categories) == {fv \in FV : categories[fv].remaining > 0 /\ categories[fv].max > 0}

\* (min - selected) / remaining of f is at least that of g
RatioAtLeast(categories, f, g) ==
    (categories[f].min - categories[f].selected) * categories[g].remaining
        >= (categories[g].min - categories[g].selected) * categories[f].remaining

LargestRatio(categories) ==
    {f \in Eligible(categories) : \A g \in Eligible(categories) : RatioAtLeast(categories, f, g)}

\* the first value of largest ratio in the iteration order of the quota table
FirstLargestRatio(categories) ==
    FVOrder[CHOOSE ix \in 1..Len(FVOrder) :
               /\ FVOrder[ix] \in LargestRatio(categories)
               /\ \A jx \in 1..(ix - 1) : FVOrder[jx] \notin LargestRatio(categories)]

HoldsValue(a, fv) == agents[a][fv[1]] = fv[2]

\* C17: each selection step that finds a feature value with remaining > 0 and max > 0 adds one
\* agent, and this agent holds the value of largest ratio (min - selected) / remaining among
\* these values, the first in iteration order when several values have the largest ratio.
C17_StepChoosesLargestDeficitRatio ==
    [][(lpc = "loop" /\ count' = count + 1 /\ Eligible(cat_copy) # {}) =>
          /\ Len(people_selected') = Len(people_selected) + 1
          /\ HoldsValue(people_selected'[Len(people_selected')], FirstLargestRatio(cat_copy))]_vars

\* after a first step taken from a table with values of different ratios, two of them largest,
\* and with a live agent that does not hold the chosen value
C17_Witness ==
    /\ count = 1
    /\ Len(people_selected) = 1
    /\ Cardinality(LargestRatio(feature_info)) >= 2
    /\ LargestRatio(feature_info) # Eligible(feature_info)
    /\ HoldsValue(people_selected[1], FirstLargestRatio(feature_info))
    /\ \E a \in DOMAIN agents : ~HoldsValue(a, FirstLargestRatio(feature_info))

\* the live agents that hold a feature value
LiveHolders(fv) == {a \in agents_copy : HoldsValue(a, fv)}

\* a step of the running attempt has completed and added an agent
StepCompleted == lpc = "loop" /\ count >= 1 /\ last_step.added # {}

\* C18: after every completed selection step, no live agent holds a value v of the chosen agent
\* with selected(v) = max(v); every remaining counter is the number of live agents holding the
\* value, so the counters of the other values of the deleted agents went down with them; and no
\* value is left with remaining = 0 and selected < min.
C18_FullValuesLeaveThePool ==
    StepCompleted =>
        /\ \A a \in last_step.added : \A v \in FV :
              (HoldsValue(a, v) /\ cat_copy[v].selected = cat_copy[v].max) => LiveHolders(v) = {}
        /\ \A fv \in FV : cat_copy[fv].remaining = Cardinality(LiveHolders(fv))
        /\ \A fv \in FV : ~(cat_copy[fv].remaining = 0 /\ cat_copy[fv].selected < cat_copy[fv].min)

\* a step that filled a value of the chosen agent and thereby deleted another agent, who holds
\* a value that the chosen agent does not hold and that a live agent still holds
C18_Witness ==
    /\ StepCompleted
    /\ \E a \in last_step.added : \E v \in FV : \E b \in last_step.before \ (agents_copy \cup {a}) :
          /\ HoldsValue(a, v) /\ cat_copy[v].selected = cat_copy[v].max
          /\ HoldsValue(b, v)
          /\ \E w \in FV : /\ HoldsValue(b, w) /\ ~HoldsValue(a, w)
                            /\ LiveHolders(w) # {}

(***************************************************************************)
(* Properties of legacy_find's copies (SpecLegacy)                         *)
(***************************************************************************)
\* an attempt is starting: the top of the loop of legacy_find has just run
AttemptStarts == lpc # "loop" /\ lpc' = "loop"

\* C19: legacy_find leaves the caller's quota table and agent map unchanged, whatever the
\* number of attempts, and every attempt starts from the caller's quotas with selected = 0,
\* remaining = the number of pool members holding the value, the whole pool and no one selected.
C19_AttemptsStartFromCallersTable ==
    [][/\ feature_info' = feature_info
       /\ agents' = agents
       /\ AttemptStarts =>
             /\ \A fv \in FV : /\ cat_copy'[fv].selected = 0
                                /\ cat_copy'[fv].remaining = PoolCount(agents, fv)
                                /\ cat_copy'[fv].min = feature_info[fv].min
                                /\ cat_copy'[fv].max = feature_info[fv].max
             /\ agents_copy' = DOMAIN agents
             /\ people_selected' = <<>>]_vars

\* an attempt that selected somebody has ended without a panel, its copies changed, and the
\* next attempt is due; the caller's table is as read_instance built it
C19_Witness ==
    /\ lpc \in {"SelectionError", "rejected"}
    /\ people_selected # <<>>
    /\ agents_copy # DOMAIN agents
    /\ \E fv \in FV : cat_copy[fv].selected > 0
    /\ \A fv \in FV : feature_info[fv].selected = 0 /\ feature_info[fv].remaining = PoolCount(agents, fv)
    /\ ENABLED BeginAttempt

(***************************************************************************)
(* Properties of the extension loop of find_distribution_xmin (SpecXmin)   *)
(***************************************************************************)
\* what the draws of one extension iteration can give in the current state
IterationDraws ==
    DrawLoop(legacy_find(feature_info, agents, k), initial_portfolio,
             3 * Cardinality(DOMAIN agents), 1)

\* the panels legacy_find can return in the current state
LegacyPanels == {o.panel : o \in {q \in legacy_find(feature_info, agents, k) : q.status = "returned"}}

\* an iteration of the extension loop, or the end of the loop, takes place
ExtensionStep == xpc = "extend" /\ xpc' # "extend"

\* C20: find_distribution_xmin runs at most 5 * |pool| extension iterations; an iteration makes
\* at most 3 * |pool| draws of LEGACY, appends the first drawn panel that the portfolio does not
\* hold and re-runs the engine on the extended portfolio; the loop ends at the first iteration
\* whose 3 * |pool| draws are all in the portfolio, and the portfolio and weights returned are
\* those of the last engine run.
C20_ExtensionLoopBudgets ==
    [][ExtensionStep =>
          /\ i <= 5 * Cardinality(DOMAIN agents)
          /\ \A r \in IterationDraws : r.draws <= 3 * Cardinality(DOMAIN agents)
          /\ xpc' = "engine" =>
                /\ i < 5 * Cardinality(DOMAIN agents)
                /\ \E p \in LegacyPanels \ SeqToSet(initial_portfolio) :
                      /\ initial_portfolio' = Append(initial_portfolio, p)
                      /\ committees' = SeqToSet(initial_portfolio) \cup {p}
          /\ xpc' = "returned" =>
                /\ \/ i = 5 * Cardinality(DOMAIN agents)
                   \/ \E r \in IterationDraws :
                         /\ r.kind = "None"
                         /\ r.draws = 3 * Cardinality(DOMAIN agents)
                         /\ LegacyPanels \cap SeqToSet(initial_portfolio) # {}
                /\ initial_portfolio' = initial_portfolio
                /\ probabilities' = probabilities
                /\ initial_portfolio = SetToList(committees)
                /\ probabilities = Normalise(clip(primal_x))]_vars

\* a return after at least one extension, below the iteration budget, at an iteration whose
\* draws were all in the portfolio although LEGACY can also give a panel outside it
C20_Witness ==
    /\ xpc = "returned"
    /\ i >= 1
    /\ i < 5 * Cardinality(DOMAIN agents)
    /\ Len(initial_portfolio) > Len(leximin_portfolio)
    /\ LegacyPanels \cap SeqToSet(initial_portfolio) # {}
    /\ LegacyPanels \ SeqToSet(initial_portfolio) # {}

(***************************************************************************)
(* Properties of the engine _expand_distribution_leximin (SpecXmin)        *)
(***************************************************************************)
\* a step taken inside an engine run, the return of the run included
EngineStep == xpc = "engine" /\ xpc' \in {"engine", "extend"}

\* C21: during an engine run no agent leaves fixed_probabilities and no panel leaves the panel
\* set, whether the step is a column generation pass, the end of an outer iteration or a
\* numeric relaxation; the portfolio an engine run returns holds every panel of its panel set,
\* and in a run started by find_distribution_xmin every panel of the portfolio it started from.
C21_FixedAgentsAndPanelsOnlyGrow ==
    [][EngineStep =>
          /\ DOMAIN fixed_probabilities \subseteq DOMAIN fixed_probabilities'
          /\ committees \subseteq committees'
          /\ xpc' = "extend" =>
                /\ committees \subseteq SeqToSet(initial_portfolio')
                /\ caller = "find_distribution_xmin" =>
                      SeqToSet(initial_portfolio) \subseteq SeqToSet(initial_portfolio')]_vars

\* a run started by find_distribution_xmin has returned after a numeric relaxation, with more
\* panels than the leximin portfolio plus the panels the extension loop appended
C21_Witness ==
    /\ xpc = "extend"
    /\ caller = "find_distribution_xmin"
    /\ reduction_counter >= 1
    /\ DOMAIN fixed_probabilities = DOMAIN agents
    /\ Len(initial_portfolio) > Len(leximin_portfolio) + i

\* the outcomes of a pass of the inner loop in the current state of an engine run
PassOutcomes == ColumnGeneration(agents, Feasible, committees, fixed_probabilities, dual_model)

InOuterLoop ==
    /\ xpc = "engine"
    /\ Cardinality(DOMAIN fixed_probabilities) < Cardinality(DOMAIN agents)

ReductionStepTaken == xpc = "engine" /\ reduction_counter' = reduction_counter + 1

\* C23: when a dual solve is not optimal, every fixed probability p becomes max(0, p - 0.0001),
\* the set of fixed agents and the panel set stay as they are, and the dual LP of the next solve
\* has the reduced fixed probabilities and a constraint for every panel collected so far, also
\* when no probability is fixed yet.
C23_ReductionRelaxesEveryFixedProbability ==
    [][ReductionStepTaken =>
          /\ DOMAIN fixed_probabilities' = DOMAIN fixed_probabilities
          /\ \A a \in DOMAIN fixed_probabilities :
                fixed_probabilities'[a] = Max2(0, fixed_probabilities[a] - ReductionStep)
          /\ committees' = committees
          /\ dual_model'.fixed = fixed_probabilities'
          /\ dual_model'.panels = committees]_vars

\* after a relaxation: a probability fixed at 0 and one just below a value of the dual grid, a
\* panel added by column generation, and a probability still to be fixed
C23_Witness ==
    /\ InOuterLoop
    /\ reduction_counter >= 1
    /\ \E a \in DOMAIN fixed_probabilities : fixed_probabilities[a] = 0
    /\ \E a \in DOMAIN fixed_probabilities :
          /\ fixed_probabilities[a] > 0
          /\ (fixed_probabilities[a] + ReductionStep) % (Scale \div DualGrid) = 0
    /\ dual_model.fixed = fixed_probabilities

\* C24: the number of numeric relaxations of one engine run is limited, so that the engine
\* leaves its inner loop when the dual keeps ending with a status that is not optimal.  Within
\* the horizon of the model: a run stops relaxing before it has made MaxReductions relaxations.
C24_RelaxationsAreLimited == reduction_counter < MaxReductions

\* the dual solutions of the next solve and the panels the pricing IP can return for one of them
NextDualSolutions == DualSolutions(agents, dual_model.panels, dual_model.fixed)
PricedPanels(d) == OptimalCommittees(Feasible, d.y)

\* the pass for dual solution d and priced panel c ends the inner loop
EndsInnerLoop(d, c) == c.value * DualUnit <= d.upper * DualUnit + EPS

\* the dual weight of agent a in d exceeds EPS
WeightAboveEPS(d, a) == d.y[a] * DualUnit > EPS

\* C25: when the inner loop ends (value <= upper + EPS), exactly the agents that are not fixed
\* and whose dual weight exceeds EPS become fixed, each to max(0, dual_obj); every fixed
\* probability is >= 0 and the agents fixed before keep their values.
C25_EndOfInnerLoopFixesHeavyAgents ==
    InOuterLoop =>
        \A d \in NextDualSolutions : \A c \in PricedPanels(d) :
            EndsInnerLoop(d, c) =>
                LET o == PricingOutcome(agents, committees, fixed_probabilities, d, c)
                    before == DOMAIN fixed_probabilities
                    after == DOMAIN o.fixed_probabilities
                IN /\ o.kind = "fix"
                   /\ after \ before = {a \in DOMAIN agents \ before : WeightAboveEPS(d, a)}
                   /\ \A a \in after \ before : o.fixed_probabilities[a] = Max2(0, d.objVal)
                   /\ \A a \in before : /\ a \in after
                                         /\ o.fixed_probabilities[a] = fixed_probabilities[a]
                   /\ \A a \in after : o.fixed_probabilities[a] >= 0

\* an inner loop ends with an agent fixed earlier at a positive value, an agent that becomes
\* fixed and an agent of weight 0 that stays unfixed
C25_Witness ==
    /\ InOuterLoop
    /\ \E a \in DOMAIN fixed_probabilities : fixed_probabilities[a] > 0
    /\ \E d \in NextDualSolutions : \E c \in PricedPanels(d) :
          /\ EndsInnerLoop(d, c)
          /\ \E a \in DOMAIN agents \ DOMAIN fixed_probabilities : WeightAboveEPS(d, a)
          /\ \E a \in DOMAIN agents \ DOMAIN fixed_probabilities : ~WeightAboveEPS(d, a)

(***************************************************************************)
(* Properties of legacy_probabilities (SpecProbabilities)                  *)
(***************************************************************************)
FeaturesOf(category) == {fv \in FV : fv[1] = category}
SumOfMin(category) == SumOver(FeaturesOf(category), [fv \in FeaturesOf(category) |-> feature_info[fv].min])
SumOfMax(category) == SumOver(FeaturesOf(category), [fv \in FeaturesOf(category) |-> feature_info[fv].max])

\* some category has lower quotas that add up to more than k or upper quotas that add up to less
QuotaSumsExcludeK == \E category \in Cats : SumOfMin(category) > k \/ SumOfMax(category) < k

\* C26: legacy_probabilities rejects every instance in which some category has the sum of its
\* min quotas greater than k or the sum of its max quotas smaller than k, and does so before
\* any panel is drawn: legacy_find is not entered.
C26_QuotaSumsCheckedBeforeDrawing ==
    QuotaSumsExcludeK => lpc \in {"legacy_probabilities", "AssertionError"}

\* a rejection because of the upper quotas of the second category only
C26_Witness ==
    /\ lpc = "AssertionError"
    /\ \A category \in Cats : SumOfMin(category) <= k
    /\ SumOfMax("gender") >= k
    /\ SumOfMax("age") < k
    /\ DOMAIN agents # {}

(***************************************************************************)
(* Properties of the counters of the quota table (SpecLegacy)              *)
(***************************************************************************)
\* a selection step is about to start
StepStarts == lpc = "loop" /\ count < k

\* the panel members that hold a feature value
SelectedHolders(fv) == {a \in SeqToSet(people_selected) : HoldsValue(a, fv)}

\* C27: at the start of every selection step, remaining(v) is the number of agents of the live
\* pool that hold v and selected(v) is the number of panel members that hold v, for every
\* feature value v; the random index drawn in 1..remaining(v) for the chosen value therefore
\* designates an agent of the live pool.
C27_CountersMatchPoolAndPanel ==
    StepStarts =>
        /\ \A fv \in FV : /\ cat_copy[fv].remaining = Cardinality(LiveHolders(fv))
                           /\ cat_copy[fv].selected = Cardinality(SelectedHolders(fv))
        /\ \A ratio \in find_max_ratio_cat(cat_copy) :
              (~ratio.error /\ ratio.ratio_cat \in Cats) =>
                  /\ PickScan(agents, SortedSeq(agents_copy), 1, ratio, ratio.ratio_random)
                        \in agents_copy
                  /\ HoldsValue(PickScan(agents, SortedSeq(agents_copy), 1, ratio,
                                         ratio.ratio_random),
                                <<ratio.ratio_cat, ratio.ratio_cat_val>>)

\* the start of a step after a completed one that filled a value: a member selected, an agent
\* deleted without being selected, and a live agent that the next draw can designate
C27_Witness ==
    /\ StepStarts
    /\ count = 1
    /\ Len(people_selected) = 1
    /\ Cardinality(agents_copy) + 1 < Cardinality(DOMAIN agents)
    /\ \E ratio \in find_max_ratio_cat(cat_copy) : ~ratio.error /\ ratio.ratio_random >= 1

\* C28: in every state of the inner loop the dual LP has a constraint for every panel of the
\* panel set, and a priced panel whose value exceeds upper + EPS for a solution of this LP is not
\* in the panel set: the assertion `new_set not in committees` holds, also in the engine runs
\* that find_distribution_xmin starts from an enlarged portfolio.
C28_PricedPanelIsNew ==
    InOuterLoop =>
        /\ committees \subseteq dual_model.panels
        /\ \A d \in NextDualSolutions : \A c \in PricedPanels(d) :
              ~EndsInnerLoop(d, c) =>
                  /\ c.new_set \notin committees
                  /\ PricingOutcome(agents, committees, fixed_probabilities, d, c).kind = "add"

\* a run started by find_distribution_xmin prices a panel that violates the dual solution
C28_Witness ==
    /\ InOuterLoop
    /\ caller = "find_distribution_xmin"
    /\ \E d \in NextDualSolutions : \E c \in PricedPanels(d) : ~EndsInnerLoop(d, c)

(***************************************************************************)
(* Properties of the report of _relax_infeasible_quotas (SpecSetup)        *)
(***************************************************************************)
\* the diagnoser is about to run: the quotas are infeasible and its own model is not
DiagnoserRuns ==
    /\ xpc = "call"
    /\ Feasible = {}
    /\ Relaxable # {}

\* the optimal solutions of the relaxation IP and the outcomes of the diagnoser, in this state
RelaxationOptima == RelaxSolutions(feature_info, agents, k, check_same_address, Households)
DiagnoserOutcomes == _relax_infeasible_quotas(feature_info, agents, k, check_same_address, Households)

\* C29: for every optimal solution of the relaxation IP no feature value has its lower quota
\* lowered and its upper quota raised, so the assertion `lower == min` made when an upper quota
\* is raised never fails.
C29_NoValueLoweredAndRaised ==
    DiagnoserRuns =>
        /\ \A sol \in RelaxationOptima : \A fv \in FV :
              ~(sol.min_vars[fv] > 0 /\ sol.max_vars[fv] > 0)
        /\ \A r \in DiagnoserOutcomes : r.error # "AssertionError"

\* C30: the diagnoser never recommends a negative lower quota: for every optimal solution of the
\* relaxation IP each returned lower quota is >= 0, and a feature value whose lower quota is 0
\* keeps the lower quota 0 and gets no 'lowering' note.
C30_LowerQuotasStayNonNegative ==
    DiagnoserRuns =>
        \A r \in DiagnoserOutcomes :
            r.error = "" =>
                \A fv \in FV :
                    /\ r.new_quotas[fv][1] >= 0
                    /\ feature_info[fv].min = 0 =>
                          /\ r.new_quotas[fv][1] = 0
                          /\ \A j \in DOMAIN r.output_lines :
                                ~(r.output_lines[j].note = "lowering" /\ r.output_lines[j].fv = fv)

====
